---- MODULE Spec2Model ----
(***************************************************************************)
(* A model of SET_solver.py: Card, Hand, the third-card rule and the two   *)
(* searches Hand.find_set and Hand.find_set_brute_force.                   *)
(*                                                                         *)
(* A card is the tuple of its values (Card.values); Card.p is its length.  *)
(* Python indexes from 0, TLA+ sequences from 1: position i of the model   *)
(* is index i-1 of the source.                                             *)
(***************************************************************************)
EXTENDS Integers, Sequences, FiniteSets

\* Card.v: "our algorithm depends on the fact that v = 3"
V == 3

\* The largest property count p of the cards that are tried.
MaxProps == 3

\* The largest number of property values (cards times p) in the list that
\* is handed to Hand(cards).
MaxCells == 10

VARIABLES
    pc,        \* position of the driver: which call is running or has returned
    cardsArg,  \* what Hand.__init__ was given: None or a list, and its length
    cards,     \* Hand.cards: the set of cards of the hand
    hand,      \* list(self.cards): the cards of the hand in iteration order
    size,      \* Hand.size
    pairs,     \* the pairs the running search iterates over
    k,         \* position in pairs of the pair the for loop takes next
    fsLog,     \* pairs find_set applied calculate_third_card/find_card to
    fsResult,  \* what find_set returned
    bfLog,     \* pairs find_set_brute_force applied the test to
    bfResult,  \* what find_set_brute_force returned
    arg1,      \* first operand of a direct call (card1 / self)
    arg2,      \* second operand of a direct call (card2 / other)
    ret        \* what the direct call returned

vars == <<pc, cardsArg, cards, hand, size, pairs, k, fsLog, fsResult, bfLog, bfResult,
          arg1, arg2, ret>>

\* Python's None as a search result (a found SET is a 3-tuple of cards).
None == <<>>

Values == 0..(V - 1)

\* Deck.cards for p properties: every tuple of p values.
Deck(p) == [1..p -> Values]

Min(S) == CHOOSE x \in S : \A y \in S : x <= y

----------------------------------------------------------------------------
(* Card *)

\* Card.__eq__: walks self.values and compares with other.values at the same
\* index; the first index that other does not have raises IndexError, the
\* first index with different values returns False, otherwise True.
Card_eq(self, other) ==
    LET stop == {i \in 1..Len(self) : i > Len(other) \/ self[i] # other[i]}
    IN  IF stop = {} THEN "True"
        ELSE IF Min(stop) > Len(other) THEN "IndexError"
        ELSE "False"

\* Card.__hash__: the hash of the tuple of values. Tuples with the same
\* contents hash alike; the model keeps the tuple as the key.
Card_hash(self) == [i \in 1..Len(self) |-> self[i]]

----------------------------------------------------------------------------
(* Hand *)

\* set(cards) in Hand.__init__: the cards of the list that are kept, a card
\* being dropped when an earlier one has the same hash and is __eq__.
HandCards(list) ==
    {list[i] : i \in {i \in 1..Len(list) :
        ~ \E j \in 1..(i - 1) :
            /\ Card_hash(list[j]) = Card_hash(list[i])
            /\ Card_eq(list[j], list[i]) = "True"}}

\* Every iteration order a set with these elements can have.
RECURSIVE Orders(_)
Orders(S) ==
    IF S = {} THEN {<<>>}
    ELSE UNION {{<<x>> \o t : t \in Orders(S \ {x})} : x \in S}

\* find_card that answers True for every card.
find_card_always(h, card) == TRUE

\* Hand.find_card: card in self.cards. The set looks the card up by hash and
\* then by __eq__ of the stored card.
find_card(h, card) ==
    \E i \in 1..Len(h) :
        /\ Card_hash(h[i]) = Card_hash(card)
        /\ Card_eq(h[i], card) = "True"

\* The third value taken to be the second card's value.
ThirdValueSecond(v1, v2) == IF v1 = v2 THEN v1 ELSE v2

\* The third value taken to be the first card's value in both branches.
ThirdValueFirst(v1, v2) == v1

\* One property of calculate_third_card: p_set = {v1, v2}; with one element
\* the shared value, otherwise list(set(range(v)) - p_set)[0].
ThirdValue(v1, v2) ==
    IF Cardinality({v1, v2}) < 2 THEN v1
    ELSE Min(Values \ {v1, v2})

\* A third card that takes the successor of card1's value where the two differ.
calculate_third_card_next(card1, card2) ==
    [p \in 1..Len(card1) |->
        IF card1[p] = card2[p] THEN card1[p] ELSE (card1[p] + 1) % V]

\* Hand.calculate_third_card
calculate_third_card(card1, card2) ==
    [p \in 1..Len(card1) |-> ThirdValue(card1[p], card2[p])]

\* itertools.combinations(s, 2): the pairs <<s[i], s[j]>>, i < j, in
\* lexicographic order of (i, j).
RECURSIVE combinations2(_)
combinations2(s) ==
    IF Len(s) < 2 THEN <<>>
    ELSE [j \in 1..(Len(s) - 1) |-> <<s[1], s[j + 1]>>] \o combinations2(Tail(s))

\* list(self.cards)[:self.size//2] and list(self.cards)[self.size//2:]
part1(h, sz) == SubSeq(h, 1, sz \div 2)
part2(h, sz) == SubSeq(h, (sz \div 2) + 1, Len(h))

\* Only the first half is paired.
FindSetPairsFirstHalf(h, sz) == combinations2(part1(h, sz))

\* The second half's pairs come first.
FindSetPairsSwapped(h, sz) ==
    combinations2(part2(h, sz)) \o combinations2(part1(h, sz))

\* The second half's pairs are followed by every pair of the hand.
FindSetPairsPlusAll(h, sz) ==
    combinations2(part1(h, sz)) \o combinations2(part2(h, sz)) \o combinations2(h)

\* The halves overlap in the middle card.
FindSetPairsOverlap(h, sz) ==
    combinations2(SubSeq(h, 1, IF sz = 0 THEN 0 ELSE (sz \div 2) + 1))
        \o combinations2(part2(h, sz))

\* find_set, lines 92-95: pairs = pairs1 + pairs2
FindSetPairs(h, sz) ==
    combinations2(part1(h, sz)) \o combinations2(part2(h, sz))

\* Only neighbouring cards are paired (zip(cards, cards[1:])).
BruteForcePairsAdjacent(h) ==
    [i \in 1..(Len(h) - 1) |-> <<h[i], h[i + 1]>>]

\* find_set_brute_force, line 111: itertools.combinations(self.cards, 2)
BruteForcePairs(h) == combinations2(h)

----------------------------------------------------------------------------
(* test.py *)

\* is_valid_SET: no property has more than one and fewer than len(SET)
\* different values.
is_valid_SET(SET) ==
    \A i \in 1..Len(SET[1]) :
        LET values == {SET[c][i] : c \in 1..Len(SET)}
        IN  ~ (Cardinality(values) > 1 /\ Cardinality(values) < Len(SET))

----------------------------------------------------------------------------
(* The state machine *)

Init ==
    /\ pc = "new"
    /\ cardsArg = [isNone |-> FALSE, len |-> 0]
    /\ cards = {}
    /\ hand = <<>>
    /\ size = 0
    /\ pairs = <<>>
    /\ k = 0
    /\ fsLog = <<>>
    /\ fsResult = None
    /\ bfLog = <<>>
    /\ bfResult = None
    /\ arg1 = <<>>
    /\ arg2 = <<>>
    /\ ret = <<>>

\* Hand(None)
HandInitNone ==
    /\ pc = "new"
    /\ cardsArg' = [isNone |-> TRUE, len |-> 0]
    /\ cards' = {}
    /\ size' = 0
    /\ pc' = "hand"
    /\ UNCHANGED <<hand, pairs, k, fsLog, fsResult, bfLog, bfResult, arg1, arg2, ret>>

\* Hand(cards) for a list of cards of one property count, duplicates allowed.
HandInit ==
    /\ pc = "new"
    /\ \E p \in 1..MaxProps :
       \E n \in 0..(MaxCells \div p) :
       \E list \in [1..n -> Deck(p)] :
          /\ cardsArg' = [isNone |-> FALSE, len |-> n]
          /\ cards' = HandCards(list)
          /\ size' = Cardinality(HandCards(list))
    /\ pc' = "hand"
    /\ UNCHANGED <<hand, pairs, k, fsLog, fsResult, bfLog, bfResult, arg1, arg2, ret>>

\* hand.find_set(): lines 92-95, up to the for loop. list(self.cards) gives
\* the cards in the iteration order of the set, which is any order and stays
\* the same for as long as the set is not modified.
find_set ==
    /\ pc = "hand"
    /\ \E order \in Orders(cards) :
          /\ hand' = order
          /\ pairs' = FindSetPairs(order, size)
    /\ k' = 1
    /\ pc' = "find_set"
    /\ UNCHANGED <<cardsArg, cards, size, fsLog, fsResult, bfLog, bfResult,
                   arg1, arg2, ret>>

\* One turn of find_set's for loop (lines 96-99), or its end (line 100).
find_set_loop ==
    /\ pc = "find_set"
    /\ IF k > Len(pairs)
       THEN /\ fsResult' = None
            /\ pc' = "find_set_returned"
            /\ UNCHANGED <<k, fsLog>>
       ELSE LET c1 == pairs[k][1]
                c2 == pairs[k][2]
                c3 == calculate_third_card(c1, c2)
            IN  /\ fsLog' = Append(fsLog, <<c1, c2>>)
                /\ IF find_card(hand, c3)
                   THEN /\ fsResult' = <<c1, c2, c3>>
                        /\ pc' = "find_set_returned"
                        /\ UNCHANGED k
                   ELSE /\ k' = k + 1
                        /\ UNCHANGED <<fsResult, pc>>
    /\ UNCHANGED <<cardsArg, cards, hand, size, pairs, bfLog, bfResult, arg1, arg2, ret>>

\* hand.find_set_brute_force(): line 111.
find_set_brute_force ==
    /\ pc = "find_set_returned"
    /\ pairs' = BruteForcePairs(hand)
    /\ k' = 1
    /\ pc' = "brute_force"
    /\ UNCHANGED <<cardsArg, cards, hand, size, fsLog, fsResult, bfLog, bfResult,
                   arg1, arg2, ret>>

\* One turn of find_set_brute_force's for loop (lines 112-115), or its end
\* (line 116).
find_set_brute_force_loop ==
    /\ pc = "brute_force"
    /\ IF k > Len(pairs)
       THEN /\ bfResult' = None
            /\ pc' = "done"
            /\ UNCHANGED <<k, bfLog>>
       ELSE LET c1 == pairs[k][1]
                c2 == pairs[k][2]
                c3 == calculate_third_card(c1, c2)
            IN  /\ bfLog' = Append(bfLog, <<c1, c2>>)
                /\ IF find_card(hand, c3)
                   THEN /\ bfResult' = <<c1, c2, c3>>
                        /\ pc' = "done"
                        /\ UNCHANGED k
                   ELSE /\ k' = k + 1
                        /\ UNCHANGED <<bfResult, pc>>
    /\ UNCHANGED <<cardsArg, cards, hand, size, pairs, fsLog, fsResult, arg1, arg2, ret>>

\* A direct call of calculate_third_card on two cards of the same shape.
ThirdCardCall ==
    /\ pc = "new"
    /\ \E p \in 1..MaxProps :
       \E card1 \in Deck(p) :
       \E card2 \in Deck(p) :
          /\ arg1' = card1
          /\ arg2' = card2
          /\ ret' = calculate_third_card(card1, card2)
    /\ pc' = "third_card"
    /\ UNCHANGED <<cardsArg, cards, hand, size, pairs, k, fsLog, fsResult, bfLog, bfResult>>

\* self == other on two cards of any shapes.
EqCall ==
    /\ pc = "new"
    /\ \E p \in 1..MaxProps :
       \E q \in 1..MaxProps :
       \E self \in Deck(p) :
       \E other \in Deck(q) :
          /\ arg1' = self
          /\ arg2' = other
          /\ ret' = Card_eq(self, other)
    /\ pc' = "eq"
    /\ UNCHANGED <<cardsArg, cards, hand, size, pairs, k, fsLog, fsResult, bfLog, bfResult>>

Next ==
    \/ ThirdCardCall
    \/ EqCall
    \/ HandInitNone
    \/ HandInit
    \/ find_set
    \/ find_set_loop
    \/ find_set_brute_force
    \/ find_set_brute_force_loop

Spec == Init /\ [][Next]_vars

----------------------------------------------------------------------------
(* Vocabulary of the properties *)

\* The cards the hand holds.
HandSet == cards

\* find_set has returned.
FsReturned == pc \in {"find_set_returned", "brute_force", "done"}

\* find_set_brute_force has returned.
BfReturned == pc = "done"

\* The rule of the game: on every property the three values are all equal
\* or pairwise different.
SameOrDifferent(a, b, c) ==
    \A i \in 1..Len(a) :
        \/ (a[i] = b[i] /\ b[i] = c[i])
        \/ (a[i] # b[i] /\ b[i] # c[i] /\ a[i] # c[i])

\* The triples of positions of the hand that hold three different cards
\* forming a SET.
SETsOfHand ==
    {t \in (1..Len(hand)) \X (1..Len(hand)) \X (1..Len(hand)) :
        /\ t[1] < t[2] /\ t[2] < t[3]
        /\ hand[t[1]] # hand[t[2]] /\ hand[t[2]] # hand[t[3]] /\ hand[t[1]] # hand[t[3]]
        /\ SameOrDifferent(hand[t[1]], hand[t[2]], hand[t[3]])}

\* n choose 2
Choose2(n) == (n * (n - 1)) \div 2

\* The half (1 or 2) position i of the hand falls in.
Half(i) == IF i <= size \div 2 THEN 1 ELSE 2

\* The pairs of positions i < j of one half.
SameHalfPairs ==
    {q \in (1..size) \X (1..size) : q[1] < q[2] /\ Half(q[1]) = Half(q[2])}

\* q comes before r: first half first, then lexicographic by position.
Before(q, r) ==
    \/ Half(q[1]) < Half(r[1])
    \/ /\ Half(q[1]) = Half(r[1])
       /\ (q[1] < r[1] \/ (q[1] = r[1] /\ q[2] < r[2]))

\* The place of q in that order, counted from 1.
Rank(q) == Cardinality({r \in SameHalfPairs : Before(r, q)}) + 1

\* The position of a card in the hand.
PosOf(c) == CHOOSE i \in 1..Len(hand) : hand[i] = c

\* The positions of the r-th pair of a log.
LogPos(log, r) == <<PosOf(log[r][1]), PosOf(log[r][2])>>

\* Some card of the hand completes the cards at positions q to a SET.
ThirdInHand(q) ==
    \E c \in HandSet : SameOrDifferent(hand[q[1]], hand[q[2]], c)

IsGoodTriple(r) ==
    /\ Len(r) = 3
    /\ r[1] # r[2] /\ r[2] # r[3] /\ r[1] # r[3]
    /\ {r[1], r[2], r[3]} \subseteq HandSet
    /\ SameOrDifferent(r[1], r[2], r[3])
    /\ is_valid_SET(r)

----------------------------------------------------------------------------
(* Claims *)

\* C1: a triple returned by find_set or find_set_brute_force holds three
\* pairwise different cards of the hand whose values are, on every property,
\* all equal or pairwise different.
C1_Validity ==
    /\ (FsReturned /\ fsResult # None) => IsGoodTriple(fsResult)
    /\ (BfReturned /\ bfResult # None) => IsGoodTriple(bfResult)

\* C1 witness: both searches returned a triple, and not the same one.
C1_Witness ==
    /\ BfReturned
    /\ fsResult # None
    /\ bfResult # None
    /\ fsResult # bfResult

\* C2: find_set returns None exactly when find_set_brute_force returns None.
C2_Equivalence ==
    BfReturned => ((fsResult = None) <=> (bfResult = None))

\* C2 witness: both searches found a SET in a hand none of whose SETs lies
\* within one half.
C2_Witness ==
    /\ BfReturned
    /\ fsResult # None
    /\ bfResult # None
    /\ SETsOfHand # {}
    /\ \A t \in SETsOfHand : Half(t[1]) # Half(t[3])

\* C3: find_set_brute_force returns None exactly when no three different
\* cards of the hand form a SET.
C3_Completeness ==
    BfReturned => ((bfResult = None) <=> (SETsOfHand = {}))

\* C3 witness: brute force went through a hand of four cards without a SET.
C3_Witness ==
    /\ BfReturned
    /\ bfResult = None
    /\ size = 4
    /\ Len(bfLog) = 6

\* C4: for two different cards of one shape, calculate_third_card returns a
\* card that forms a SET with them, and no other card of that shape does.
C4_ThirdCardUnique ==
    (pc = "third_card" /\ arg1 # arg2) =>
        /\ ret \in Deck(Len(arg1))
        /\ SameOrDifferent(arg1, arg2, ret)
        /\ is_valid_SET(<<arg1, arg2, ret>>)
        /\ \A d \in Deck(Len(arg1)) : SameOrDifferent(arg1, arg2, d) => d = ret

\* C4 witness: a third card was computed for two cards that agree on one
\* property and differ on another.
C4_Witness ==
    /\ pc = "third_card"
    /\ Len(arg1) = 3
    /\ arg1[1] = arg2[1]
    /\ arg1[2] # arg2[2]
    /\ ret[2] # arg1[2] /\ ret[2] # arg2[2]

\* C5: for two different cards of one shape, calculate_third_card gives the
\* same card with the operands swapped, and applied to the first card and
\* its own result gives back the second card.
C5_SymmetricInverting ==
    (pc = "third_card" /\ arg1 # arg2) =>
        /\ calculate_third_card(arg2, arg1) = ret
        /\ calculate_third_card(arg1, ret) = arg2

\* C5 witness: a third card was computed for two cards that differ on every
\* property, and it differs from both.
C5_Witness ==
    /\ pc = "third_card"
    /\ Len(arg1) = 2
    /\ \A i \in 1..2 : arg1[i] # arg2[i]
    /\ ret # arg1 /\ ret # arg2

\* C6: on a hand with fewer than three different cards both searches return
\* None.
C6_SmallHand ==
    Cardinality(HandSet) < 3 =>
        /\ FsReturned => fsResult = None
        /\ BfReturned => bfResult = None

\* C6 witness: a list with repeated cards gave a hand of two cards, and
\* brute force tested its one pair and returned None.
C6_Witness ==
    /\ BfReturned
    /\ ~ cardsArg.isNone
    /\ cardsArg.len >= 3
    /\ size = 2
    /\ Len(bfLog) = 1
    /\ fsResult = None /\ bfResult = None

\* C7: Card.__eq__ returns True exactly when the two value sequences have
\* the same length and the same value at every index.
C7_EqIffSameValues ==
    pc = "eq" =>
        /\ ret \in {"True", "False"}
        /\ (ret = "True") <=>
              (Len(arg1) = Len(arg2) /\ \A i \in 1..Len(arg1) : arg1[i] = arg2[i])

\* C8 as stated: find_set applies the test to no more pairs than
\* find_set_brute_force does on the same hand in the same order.
C8_NeverMoreTests ==
    BfReturned => Len(fsLog) <= Len(bfLog)

\* C8 amended: find_set applies the test to at most C(n, 2) pairs, and to no
\* more pairs than find_set_brute_force whenever the latter returns None.
C8_NoMoreThanExhaustive ==
    BfReturned =>
        /\ Len(fsLog) <= Choose2(size)
        /\ bfResult = None => Len(fsLog) <= Len(bfLog)

\* C8 witness: on a hand with a SET find_set tested more pairs than brute
\* force, and fewer than C(n, 2).
C8_Witness ==
    /\ BfReturned
    /\ bfResult # None
    /\ Len(fsLog) > Len(bfLog)
    /\ Len(fsLog) < Choose2(size)

\* C9: find_set tests the pairs of the first half in lexicographic position
\* order, then those of the second half; every pair before the last tested
\* one has no third card in the hand; it returns the first pair with a third
\* card in the hand together with that card, and tests nothing afterwards.
C9_OrderAndFirstHit ==
    (pc = "find_set" \/ FsReturned) =>
        /\ \A r \in 1..Len(fsLog) :
              /\ LogPos(fsLog, r) \in SameHalfPairs
              /\ Rank(LogPos(fsLog, r)) = r
        /\ \A r \in 1..(Len(fsLog) - 1) : ~ ThirdInHand(LogPos(fsLog, r))
        /\ FsReturned =>
              IF fsResult = None
              THEN /\ Len(fsLog) = Cardinality(SameHalfPairs)
                   /\ \A r \in 1..Len(fsLog) : ~ ThirdInHand(LogPos(fsLog, r))
              ELSE /\ Len(fsLog) >= 1
                   /\ ThirdInHand(LogPos(fsLog, Len(fsLog)))
                   /\ <<fsResult[1], fsResult[2]>> = fsLog[Len(fsLog)]
                   /\ fsResult[3] \in HandSet

\* C9 witness: find_set returned on the third pair it tested, a pair of the
\* second half, with a pair of that half left untested.
C9_Witness ==
    /\ FsReturned
    /\ fsResult # None
    /\ Len(fsLog) = 3
    /\ Half(PosOf(fsResult[1])) = 2
    /\ Len(fsLog) < Cardinality(SameHalfPairs)

\* C10: on a hand of n cards without a SET find_set returns None after
\* testing exactly C(floor(n/2), 2) + C(ceil(n/2), 2) pairs, each within one
\* half; the halves are disjoint and cover the hand; the count is at most
\* C(n, 2), which is what brute force tests, and smaller when n >= 2.
C10_PairCount ==
    (FsReturned /\ SETsOfHand = {}) =>
        /\ fsResult = None
        /\ Len(fsLog) = Choose2(size \div 2) + Choose2(size - (size \div 2))
        /\ \A r \in 1..Len(fsLog) :
              Half(PosOf(fsLog[r][1])) = Half(PosOf(fsLog[r][2]))
        /\ part1(hand, size) \o part2(hand, size) = hand
        /\ Len(part1(hand, size)) = size \div 2
        /\ Len(fsLog) <= Choose2(size)
        /\ size >= 2 => Len(fsLog) < Choose2(size)
        /\ BfReturned => Len(bfLog) = Choose2(size)

\* C10 witness: find_set returned None on four cards after two tests.
C10_Witness ==
    /\ pc = "find_set_returned"
    /\ fsResult = None
    /\ size = 4
    /\ Len(fsLog) = 2

====
